---------------------------- MODULE Spec2Model ----------------------------
(***************************************************************************)
(* Model of the AST-based checks of the code-smell detector:               *)
(*   - "Nested Callbacks (Callback Hell)"  (src/smells.js 84-172)          *)
(*   - "Duplicate Code"                    (src/smells.js 231-394)         *)
(*   - the aggregation of analyzeFile and analyzeProject                   *)
(*                                         (src/detector.js 60-126)        *)
(*                                                                         *)
(* The parser (@babel/parser), the generic visitor (@babel/traverse) and   *)
(* the printer (@babel/generator) are libraries: the model draws what they *)
(* deliver (a tree or a parse error, the nodes in pre-order, each node's   *)
(* regenerated text) from bounded sets.                                    *)
(*                                                                         *)
(* Seven specifications share the variables:                               *)
(*   Spec            one call of the Nested Callbacks check; the recursion *)
(*                   of detectNestedClosures is run one call at a time,    *)
(*                   the tree being drawn child by child as it is walked   *)
(*   SpecSimilarity  analyzeSimilarity on a pair of texts                  *)
(*   SpecDuplicate   one call of the Duplicate Code check                  *)
(*   SpecProject     analyzeProject over a batch of files                  *)
(*   SpecPassOver    as Spec, and the parts of the tree that the walk of   *)
(*                   detectNestedClosures passes over are drawn too        *)
(*   SpecMalformed   as Spec, on trees that may hold a node without loc or  *)
(*                   a node whose body is null                             *)
(*   SpecExtract     as SpecDuplicate on a tree of at most MaxEntered      *)
(*                   nodes, some of them without a location, with the      *)
(*                   nodes that traverse enters kept in entered            *)
(***************************************************************************)
EXTENDS Integers, Sequences, FiniteSets, TLC

(***************************************************************************)
(* Bounds of the model.                                                    *)
(***************************************************************************)
\* deepest path of the walked tree, the Program node included
MaxStack == 7
\* source lines a node may start on: 1..MaxLine
MaxLine == 2
\* longest text over Alphabet handed to analyzeSimilarity
MaxLen == 6
\* most lines of a text made of whole lines
MaxTextLines == 3
\* source lines a code block may start on: 1..MaxBlockLine
MaxBlockLine == 3
\* most files of one batch handed to analyzeProject
MaxFiles == 2
\* most nodes of a tree whose traversal is kept node by node
MaxEntered == 2

(***************************************************************************)
(* Program constants.                                                      *)
(***************************************************************************)
\* src/smells.js:89   const maxAllowedDepth = 3
maxAllowedDepth == 3

VARIABLES
    \* ---- Nested Callbacks check (src/smells.js 86-170) ----
    pc,             \* "idle" | "walking" | "returned" | "threw": position of check()
    ast,            \* "none" | "tree" | "error": outcome of babelParser.parse
    issues,         \* the issues array of the check (line 88)
    reportedLines,  \* the Set threaded through detectNestedClosures (line 113)
    callStack,      \* the live activations of detectNestedClosures, outermost first
    \* ---- history of the walk, kept to state the properties ----
    maxNest,        \* most function-like nodes met on one root-to-node path,
                    \* counted up to maxAllowedDepth + 1
    triggered,      \* start lines of the visited nodes lying deeper than the threshold
    firstDeep,      \* history: for each of those lines, the number of function-like
                    \* nodes down to the first node visited on it beyond the
                    \* threshold, as pairs <<line, number>>
    passedOver,     \* history: start line of the first function-like node with
                    \* more than maxAllowedDepth - 1 function-like ancestors that
                    \* lies in a part of the tree the walk passed over (0: none)
    shape,          \* the tree walked so far, as far as it is one arrow chain
    \* ---- one call analyzeSimilarity(str1, str2) (src/smells.js 263-297) ----
    simStr1, simStr2, \* the arguments str1 and str2
    simPc,          \* "idle" | "called" | "returned" | "measured"
    analysis,       \* the returned { similarity, matches }
    measured,       \* what one call levenshteinDistance(str1, str2) on the same
                    \* arguments returned (-1 before the call)
    \* ---- Duplicate Code check (src/smells.js 233-392) ----
    dupPc,          \* "idle" | "traversing" | "returned": position of check()
    dupAst,         \* "none" | "tree" | "error": outcome of babelParser.parse
    codeBlocks,     \* the Map location -> block (line 261), as the sequence of
                    \* its entries [loc, code, type, name] in insertion order
    processedPairs, \* the Set of pair keys (line 338)
    dupIssues,      \* the issues array of the check (line 237)
    dropped,        \* history: a fragment shorter than MIN_DUPLICATE_LENGTH was met
    similarityCalls, \* history: the calls of analyzeSimilarity (line 345), each as
                    \* the pair <<loc1, loc2>> of the blocks it was given
    entered,        \* history, kept under SpecExtract only: the nodes that
                    \* traverse has entered, in pre-order
    \* ---- analyzeProject (src/detector.js 103-126) ----
    files,          \* the batch: what each file holds and what its checks find
    package,        \* package.json of the project root
    selectedSmells, \* the selectedSmells argument (null or a list of names)
    projPc,         \* "off" | "files" | "returned" | "rejected"
    fileIndex,      \* position of the for-of loop over files
    results,        \* the results array (line 104)
    smellsMap,      \* the Map smellsDetected (src/detector.js 76) of the latest
                    \* call of analyzeFile that made one, as the sequence of
                    \* its entries [key, value]
    console         \* what console.error and console.warn have written; each
                    \* line keeps the turn of the loop it was written in

nestedVars == <<pc, ast, issues, reportedLines, callStack,
                maxNest, triggered, firstDeep, passedOver, shape>>

simVars == <<simStr1, simStr2, simPc, analysis, measured>>

dupVars == <<dupPc, dupAst, codeBlocks, processedPairs, dupIssues, dropped,
            similarityCalls, entered>>

projVars == <<files, package, selectedSmells, projPc, fileIndex, results,
             smellsMap, console>>

vars == <<nestedVars, simVars, dupVars, projVars>>

\* what an action of one part leaves alone
notNested == <<simVars, dupVars, projVars>>
notSimilarity == <<nestedVars, dupVars, projVars>>
notDuplicate == <<nestedVars, simVars, projVars>>
notProject == <<nestedVars, simVars, dupVars>>

Lines == 1..MaxLine

(***************************************************************************)
(* Syntax nodes.  A node is drawn as [type, line]; its children are drawn  *)
(* when the walk reaches them.  "ExpressionStatement" and "BlockStatement" *)
(* stand for the node types the check does not name.                       *)
(***************************************************************************)
FunctionTypes == {"FunctionDeclaration", "FunctionExpression", "ArrowFunctionExpression"}

NodeTypes == FunctionTypes \cup
             {"ClassMethod", "CallExpression", "ExpressionStatement", "BlockStatement"}

Nodes == [type : NodeTypes, line : Lines]

\* what stands for the start line of a node that has no loc
NoLoc == -1

\* nodes without loc: a function-like one and one of another type
UnlocatedNodes == [type : {"ArrowFunctionExpression", "BlockStatement"}, line : {NoLoc}]

\* the root handed to detectNestedClosures: ast.program
ProgramNode == [type |-> "Program", line |-> 1]

Max(a, b) == IF a >= b THEN a ELSE b

Min(a, b) == IF a <= b THEN a ELSE b

(***************************************************************************)
(* Nested Callbacks check: detectNestedClosures (src/smells.js 110-166).   *)
(***************************************************************************)
\* a variant of IsFunctionNode that forgets the arrow functions
IsFunctionNodeNoArrow(type) ==
    type \in {"FunctionDeclaration", "FunctionExpression"}

\* lines 116-120: the node types that increment depth
IsFunctionNode(type) ==
    type \in {"FunctionDeclaration", "FunctionExpression", "ArrowFunctionExpression"}

\* a variant of DepthAt that also counts class methods
DepthAtCountingMethods(type, depth) ==
    IF IsFunctionNode(type) \/ type = "ClassMethod" THEN depth + 1 ELSE depth

\* line 121: depth++ for a function node; depth is a parameter, so the
\* incremented value lives in this activation only
DepthAt(type, depth) == IF IsFunctionNode(type) THEN depth + 1 ELSE depth

\* a variant of ExceedsDepth that already triggers at the threshold
ExceedsDepthInclusive(depth) == depth >= maxAllowedDepth

\* line 124: depth > maxAllowedDepth
ExceedsDepth(depth) == depth > maxAllowedDepth

\* a variant of ShouldReport that never consults reportedLines
ShouldReportEveryNode(line, depth, reported) == ExceedsDepth(depth)

\* lines 127-133: report the line unless it is already in reportedLines
ShouldReport(line, depth, reported) == ExceedsDepth(depth) /\ line \notin reported

\* lines 129-132: the pushed issue; its description carries the depth
NestingIssue(line, depth) == [line |-> line, depth |-> depth]

\* lines 138-141: the arguments of a CallExpression that are descended into
IsCallbackArgument(type) ==
    type \in {"FunctionExpression", "ArrowFunctionExpression"}

\* line 136: a CallExpression first loops over its arguments; every other
\* node goes straight to body (147-153) and the remaining keys (155-165)
FirstPhase(type) == IF type = "CallExpression" THEN "arguments" ELSE "children"

(***************************************************************************)
(* History of the walk.  These definitions read only the node types that   *)
(* the walk has met, never the depth the check computed.                   *)
(***************************************************************************)
\* function-like nodes on the path from the root to a node, the node included
NestOf(type, parentNest) == IF type \in FunctionTypes THEN parentNest + 1 ELSE parentNest

NoShape == [stage |-> "none", arrows |-> 0, outer |-> 0, inner |-> 0, block |-> 0]

OtherShape == [NoShape EXCEPT !.stage = "other"]

\* Follows the walk while the tree is one chain of arrow functions in an
\* expression statement,  Program [ ExpressionStatement ( a => b => ... => {} ) ]:
\* stage "root" (Program entered), "stmt" (the statement entered), "chain"
\* (arrows of the chain entered so far, each the body of the previous one;
\* outer and inner are the start lines of the first and the last of them),
\* "block" (the empty block body of the last arrow entered, on line block);
\* "other" as soon as the tree is anything else.
ShapeEnter(sh, node, slot) ==
    LET t == node.type IN
    CASE sh.stage = "none" /\ t = "Program" ->
            [sh EXCEPT !.stage = "root"]
      [] sh.stage = "root" /\ t = "ExpressionStatement" /\ slot = "body" ->
            [sh EXCEPT !.stage = "stmt"]
      [] sh.stage = "stmt" /\ t = "ArrowFunctionExpression" /\ slot = "key" ->
            [sh EXCEPT !.stage = "chain", !.arrows = 1,
                       !.outer = node.line, !.inner = node.line]
      [] sh.stage = "chain" /\ t = "ArrowFunctionExpression" /\ slot = "body" ->
            [sh EXCEPT !.arrows = @ + 1, !.inner = node.line]
      [] sh.stage = "chain" /\ t = "BlockStatement" /\ slot = "body" ->
            [sh EXCEPT !.stage = "block", !.block = node.line]
      [] OTHER -> OtherShape

\* a node is left: the chain is complete only if its block was reached
ShapeReturn(sh) == IF sh.stage = "block" THEN sh ELSE OtherShape

\* line 125: node.loc ? node.loc.start.line : 0
LineOf(node) == IF node.line = NoLoc THEN 0 ELSE node.line

(***************************************************************************)
(* One call detectNestedClosures(node, depth, reportedLines), lines        *)
(* 116-134: the part that runs before the call descends.  callers is the   *)
(* stack of the calling activations, parentNest the number of function-    *)
(* like nodes down to the calling node.                                    *)
(***************************************************************************)
Visit(node, depth, slot, callers, parentNest) ==
    LET d    == DepthAt(node.type, depth)
        nest == NestOf(node.type, parentNest)
        line == LineOf(node)
        rep  == ShouldReport(line, d, reportedLines)
    IN  /\ issues' = IF rep THEN Append(issues, NestingIssue(line, d)) ELSE issues
        /\ reportedLines' = IF rep THEN reportedLines \cup {line} ELSE reportedLines
        /\ callStack' = Append(callers,
                               [depth |-> d, phase |-> FirstPhase(node.type),
                                line |-> node.line, nest |-> nest])
        /\ maxNest' = Min(Max(maxNest, nest), maxAllowedDepth + 1)
        /\ triggered' = IF nest > maxAllowedDepth
                        THEN triggered \cup {node.line} ELSE triggered
        /\ firstDeep' = IF nest > maxAllowedDepth /\ node.line \notin triggered
                        THEN firstDeep \cup {<<node.line, nest>>} ELSE firstDeep
        /\ UNCHANGED passedOver
        /\ shape' = ShapeEnter(shape, node, slot)

Top == callStack[Len(callStack)]

\* lines 91-108 and 168: parse; a parse error is caught and [] returned,
\* otherwise the walk starts at ast.program with depth 0 and a new Set
Parse ==
    /\ pc = "idle"
    /\ \/ /\ ast' = "error"
          /\ pc' = "returned"
          /\ UNCHANGED <<issues, reportedLines, callStack,
                         maxNest, triggered, firstDeep, passedOver, shape>>
       \/ /\ ast' = "tree"
          /\ pc' = "walking"
          /\ Visit(ProgramNode, 0, "root", <<>>, 0)
    /\ UNCHANGED notNested

\* lines 136-145: the next argument of a CallExpression that is a function
\* expression or an arrow function is walked with the caller's depth
\* (arguments of any other type are passed over)
EnterArgument(arg) ==
    /\ pc = "walking"
    /\ Len(callStack) < MaxStack
    /\ Top.phase = "arguments"
    /\ arg.line >= Top.line
    /\ IsCallbackArgument(arg.type)
    /\ Visit(arg, Top.depth, "arguments", callStack, Top.nest)
    /\ UNCHANGED <<pc, ast>>
    /\ UNCHANGED notNested

\* lines 147-165: the next child under body (one node or each node of the
\* array) or under another key holding a node is walked with the caller's
\* depth; the loop over the arguments, if any, is over
EnterChild(child, slot) ==
    /\ pc = "walking"
    /\ Len(callStack) < MaxStack
    /\ child.line >= Top.line
    /\ Visit(child, Top.depth, slot,
             [callStack EXCEPT ![Len(callStack)].phase = "children"], Top.nest)
    /\ UNCHANGED <<pc, ast>>
    /\ UNCHANGED notNested

\* lines 147-165 for a child that has no loc: it is walked as any other
\* child (no path of the drawn trees holds more than one such node)
EnterUnlocated(child, slot) ==
    /\ pc = "walking"
    /\ Len(callStack) < MaxStack
    /\ \A k \in 1..Len(callStack) : callStack[k].line # NoLoc
    /\ Visit(child, Top.depth, slot,
             [callStack EXCEPT ![Len(callStack)].phase = "children"], Top.nest)
    /\ UNCHANGED <<pc, ast>>
    /\ UNCHANGED notNested

\* lines 147-153 for a node whose body is null: node.body && ... is false,
\* typeof null is "object", so line 152 calls detectNestedClosures(null),
\* where line 117 reads null.type; the TypeError leaves check(), which has
\* no handler around the walk (line 168), and the issues found so far go
\* with it
NullBody ==
    /\ pc = "walking"
    /\ pc' = "threw"
    /\ issues' = <<>>
    /\ reportedLines' = {}
    /\ callStack' = <<>>
    /\ maxNest' = 0
    /\ triggered' = {}
    /\ firstDeep' = {}
    /\ passedOver' = 0
    /\ shape' = NoShape
    /\ UNCHANGED ast
    /\ UNCHANGED notNested

\* lines 155-165: a key other than body and arguments is walked only if its
\* value has a type, which an array of nodes (declarations, elements,
\* properties, params, the arguments of a NewExpression) has not, and line
\* 140 passes over the arguments that are not functions; such a value is
\* passed over with all that lies beneath it.  node is a function-like node
\* in it with no other function-like node between it and the node being
\* walked.
PassOver(node) ==
    /\ pc = "walking"
    /\ node.line >= Top.line
    /\ IsFunctionNode(node.type)
    /\ callStack' = [callStack EXCEPT ![Len(callStack)].phase = "children"]
    /\ passedOver' = IF passedOver = 0 /\ NestOf(node.type, Top.nest) > maxAllowedDepth
                     THEN node.line ELSE passedOver
    /\ UNCHANGED <<pc, ast, issues, reportedLines, maxNest, triggered, firstDeep, shape>>
    /\ UNCHANGED notNested

\* line 166: the call has no child left and returns to its caller, whose
\* depth is untouched; when the root call returns, check() returns issues
\* (line 169)
Return ==
    /\ pc = "walking"
    /\ callStack' = SubSeq(callStack, 1, Len(callStack) - 1)
    /\ pc' = IF Len(callStack) = 1 THEN "returned" ELSE "walking"
    /\ shape' = ShapeReturn(shape)
    /\ UNCHANGED <<ast, issues, reportedLines, maxNest, triggered, firstDeep, passedOver>>
    /\ UNCHANGED notNested

\* a variant of NewReportedLines that hands the Set of the previous call on
NewReportedLinesShared(previous) == previous

\* line 113: the default value of the parameter reportedLines, new Set()
NewReportedLines(previous) == {}

\* check() is called again (for the next file): lines 88 and 168 give the
\* call its own issues array and, by the default parameter, its own Set
CallAgain ==
    /\ pc = "returned"
    /\ pc' = "idle"
    /\ ast' = "none"
    /\ issues' = <<>>
    /\ reportedLines' = NewReportedLines(reportedLines)
    /\ callStack' = <<>>
    /\ maxNest' = 0
    /\ triggered' = {}
    /\ firstDeep' = {}
    /\ passedOver' = 0
    /\ shape' = NoShape
    /\ UNCHANGED notNested

NestedInit ==
    /\ pc = "idle"
    /\ ast = "none"
    /\ issues = <<>>
    /\ reportedLines = {}
    /\ callStack = <<>>
    /\ maxNest = 0
    /\ triggered = {}
    /\ firstDeep = {}
    /\ passedOver = 0
    /\ shape = NoShape

\* the Nested Callbacks check is not running
NestedIdle ==
    /\ pc = "off"
    /\ ast = "none"
    /\ issues = <<>>
    /\ reportedLines = {}
    /\ callStack = <<>>
    /\ maxNest = 0
    /\ triggered = {}
    /\ firstDeep = {}
    /\ passedOver = 0
    /\ shape = NoShape

(***************************************************************************)
(* Duplicate Code check: texts.  A JavaScript string is the sequence of    *)
(* its characters (one-character strings); s.length is Len(s).             *)
(***************************************************************************)
\* src/smells.js:240  const MIN_DUPLICATE_LENGTH = 5
MIN_DUPLICATE_LENGTH == 5

\* src/smells.js:242  const SIMILARITY_THRESHOLD = 0.8, as the fraction 4/5
SIMILARITY_THRESHOLD == [num |-> 4, den |-> 5]

\* the characters String.prototype.trim removes, as far as texts hold them
Whitespace == {" ", "\t", "\n"}

\* str.split("\n"), lines 272-273; "" splits into one empty line
RECURSIVE SplitAcc(_, _, _)
SplitAcc(s, cur, acc) ==
    IF s = <<>> THEN Append(acc, cur)
    ELSE IF Head(s) = "\n" THEN SplitAcc(Tail(s), <<>>, Append(acc, cur))
    ELSE SplitAcc(Tail(s), Append(cur, Head(s)), acc)

Split(s) == SplitAcc(s, <<>>, <<>>)

RECURSIVE TrimStart(_)
TrimStart(s) == IF s # <<>> /\ Head(s) \in Whitespace THEN TrimStart(Tail(s)) ELSE s

RECURSIVE TrimEnd(_)
TrimEnd(s) ==
    IF s # <<>> /\ s[Len(s)] \in Whitespace THEN TrimEnd(SubSeq(s, 1, Len(s) - 1)) ELSE s

\* line.trim(), lines 279-280
Trim(s) == TrimEnd(TrimStart(s))

(***************************************************************************)
(* JavaScript values that end up in a match: numbers, strings, undefined.  *)
(* A match is an array of items; an item is an array [i + 1, j + 1, text]  *)
(* (line 280) or, for identical texts, a whole string (line 264).          *)
(***************************************************************************)
JsNumber(n) == [kind |-> "number", num |-> n, str |-> <<>>]
JsString(t) == [kind |-> "string", num |-> 0, str |-> t]
JsUndefined == [kind |-> "undefined", num |-> 0, str |-> <<>>]

ArrayItem(elems) == [kind |-> "array", elems |-> elems, str |-> <<>>]
StringItem(t) == [kind |-> "string", elems |-> <<>>, str |-> t]

\* m[k] (k counted from 0) for an item m: the element of an array, the
\* character of a string, undefined past the end
ItemAt(m, k) ==
    IF m.kind = "array"
    THEN IF k < Len(m.elems) THEN m.elems[k + 1] ELSE JsUndefined
    ELSE IF k < Len(m.str) THEN JsString(<<m.str[k + 1]>>) ELSE JsUndefined

(***************************************************************************)
(* levenshteinDistance (src/smells.js 299-316).  matrix[j] is built row by *)
(* row; a row is the sequence matrix[j][0..str1.length] (index shifted by  *)
(* one).                                                                   *)
(***************************************************************************)
\* a variant of Indicator that takes every pair of characters for equal
IndicatorAlwaysEqual(c1, c2) == 0

\* line 307
Indicator(c1, c2) == IF c1 = c2 THEN 0 ELSE 1

\* lines 306-313: matrix[j][i] for i = 1..str1.length, left to right;
\* row holds matrix[j][0..i-1], prev is matrix[j-1]
RECURSIVE FillRow(_, _, _, _, _)
FillRow(str1, c2, prev, row, i) ==
    IF Len(row) > Len(str1) THEN row
    ELSE FillRow(str1, c2, prev,
                 Append(row, Min(Min(row[i] + 1, prev[i + 1] + 1),
                                 prev[i] + Indicator(str1[i], c2))),
                 i + 1)

\* lines 305-314: the rows j = 1..str2.length, appended to the rows filled
\* so far (matrix[j] is the (j+1)-th of them); line 304 sets matrix[j][0] = j
RECURSIVE FillMatrix(_, _, _)
FillMatrix(str1, str2, matrix) ==
    IF Len(matrix) > Len(str2) THEN matrix
    ELSE FillMatrix(str1, str2,
                    Append(matrix,
                           FillRow(str1, str2[Len(matrix)], matrix[Len(matrix)],
                                   <<Len(matrix)>>, 1)))

\* a variant of levenshteinDistance whose row matrix[0] is all zero
levenshteinDistanceZeroRow(str1, str2) ==
    LET matrix == FillMatrix(str1, str2, << [i \in 1..(Len(str1) + 1) |-> 0] >>)
    IN  matrix[Len(str2) + 1][Len(str1) + 1]

\* line 303 sets matrix[0][i] = i; line 315 returns matrix[str2.length][str1.length]
levenshteinDistance(str1, str2) ==
    LET matrix == FillMatrix(str1, str2, << [i \in 1..(Len(str1) + 1) |-> i - 1] >>)
    IN  matrix[Len(str2) + 1][Len(str1) + 1]

(***************************************************************************)
(* analyzeSimilarity (src/smells.js 263-297).                              *)
(***************************************************************************)
\* lines 277-289: the double loop over the lines, from pair (i, j) on
\* (both counted from 0); what is left in currentMatch at the end is dropped
RECURSIVE MatchLoop(_, _, _, _, _, _)
MatchLoop(lines1, lines2, i, j, currentMatch, matches) ==
    IF i >= Len(lines1) THEN matches
    ELSE IF j >= Len(lines2) THEN MatchLoop(lines1, lines2, i + 1, 0, currentMatch, matches)
    ELSE IF Trim(lines1[i + 1]) = Trim(lines2[j + 1])
         THEN MatchLoop(lines1, lines2, i, j + 1,
                        Append(currentMatch,
                               ArrayItem(<<JsNumber(i + 1), JsNumber(j + 1),
                                           JsString(Trim(lines1[i + 1]))>>)),
                        matches)
    ELSE IF Len(currentMatch) > 0
         THEN MatchLoop(lines1, lines2, i, j + 1, <<>>,
                        IF Len(currentMatch) >= 2
                        THEN Append(matches, currentMatch) ELSE matches)
    ELSE MatchLoop(lines1, lines2, i, j + 1, currentMatch, matches)

\* a variant of TooShort that measures the first text only
TooShortFirstOnly(str1, str2) == Len(str1) < MIN_DUPLICATE_LENGTH

\* lines 265-268
TooShort(str1, str2) ==
    Len(str1) < MIN_DUPLICATE_LENGTH \/ Len(str2) < MIN_DUPLICATE_LENGTH

\* a variant of ScalarSimilarity that divides by the length of the shorter text
ScalarSimilarityByShorter(str1, str2) ==
    LET longer  == IF Len(str1) > Len(str2) THEN str1 ELSE str2
        shorter == IF Len(str1) > Len(str2) THEN str2 ELSE str1
        distance == levenshteinDistance(longer, shorter)
    IN  [num |-> Len(shorter) - distance, den |-> Len(shorter)]

\* lines 291-295: similarity = (longerLength - distance) / longerLength,
\* kept as the fraction num/den
ScalarSimilarity(str1, str2) ==
    LET longer  == IF Len(str1) > Len(str2) THEN str1 ELSE str2
        shorter == IF Len(str1) > Len(str2) THEN str2 ELSE str1
        longerLength == Len(longer)
        distance == levenshteinDistance(longer, shorter)
    IN  [num |-> longerLength - distance, den |-> longerLength]

\* a variant of analyzeSimilarity that tests the lengths before the identity
analyzeSimilarityLengthFirst(str1, str2) ==
    IF TooShort(str1, str2)
    THEN [similarity |-> [num |-> 0, den |-> 1], matches |-> <<>>, distanceRun |-> FALSE]
    ELSE IF str1 = str2
    THEN [similarity |-> [num |-> 1, den |-> 1],
          matches |-> << <<StringItem(str1), StringItem(str2)>> >>,
          distanceRun |-> FALSE]
    ELSE [similarity |-> ScalarSimilarity(str1, str2),
          matches |-> MatchLoop(Split(str1), Split(str2), 0, 0, <<>>, <<>>),
          distanceRun |-> TRUE]

\* the whole function; distanceRun tells whether levenshteinDistance was called
analyzeSimilarity(str1, str2) ==
    IF str1 = str2
    THEN [similarity |-> [num |-> 1, den |-> 1],
          matches |-> << <<StringItem(str1), StringItem(str2)>> >>,
          distanceRun |-> FALSE]
    ELSE IF TooShort(str1, str2)
    THEN [similarity |-> [num |-> 0, den |-> 1], matches |-> <<>>, distanceRun |-> FALSE]
    ELSE [similarity |-> ScalarSimilarity(str1, str2),
          matches |-> MatchLoop(Split(str1), Split(str2), 0, 0, <<>>, <<>>),
          distanceRun |-> TRUE]

\* comparisons of fractions with positive denominators
FracEq(x, y) == x.num * y.den = y.num * x.den
FracLess(x, y) == x.num * y.den < y.num * x.den
FracGeq(x, y) == x.num * y.den >= y.num * x.den
One == [num |-> 1, den |-> 1]

(***************************************************************************)
(* Texts handed to analyzeSimilarity: every text over Alphabet up to       *)
(* MaxLen characters, and every text of 2..MaxTextLines lines drawn from   *)
(* TextLines (joined by "\n"), which differ in leading whitespace only or  *)
(* in their letters.                                                       *)
(***************************************************************************)
Alphabet == {"a", "b"}

CharTexts == UNION {[1..n -> Alphabet] : n \in 0..MaxLen}

TextLines == {<<"a">>, <<" ", "a">>, <<"b">>}

RECURSIVE Join(_)
Join(ls) == IF Len(ls) = 1 THEN ls[1] ELSE ls[1] \o <<"\n">> \o Join(Tail(ls))

LineTexts == {Join(ls) : ls \in UNION {[1..n -> TextLines] : n \in 2..MaxTextLines}}

Texts == CharTexts \cup LineTexts

NoAnalysis == [similarity |-> [num |-> 0, den |-> 1], matches |-> <<>>, distanceRun |-> FALSE]

SimilarityIdle ==
    /\ simStr1 = <<>>
    /\ simStr2 = <<>>
    /\ simPc = "idle"
    /\ analysis = NoAnalysis
    /\ measured = -1

SimilarityInit ==
    /\ simStr1 \in Texts
    /\ simStr2 \in Texts
    /\ simPc = "called"
    /\ analysis = NoAnalysis
    /\ measured = -1

\* the call runs to its return statement (line 264, 269 or 296)
AnalyzeSimilarity ==
    /\ simPc = "called"
    /\ analysis' = analyzeSimilarity(simStr1, simStr2)
    /\ simPc' = "returned"
    /\ UNCHANGED <<simStr1, simStr2, measured>>
    /\ UNCHANGED notSimilarity

\* one call of levenshteinDistance on the two texts runs to line 315
LevenshteinDistance ==
    /\ simPc = "called"
    /\ measured' = levenshteinDistance(simStr1, simStr2)
    /\ simPc' = "measured"
    /\ UNCHANGED <<simStr1, simStr2, analysis>>
    /\ UNCHANGED notSimilarity

(***************************************************************************)
(* Duplicate Code check: block extraction (src/smells.js 318-336) and the  *)
(* pairwise comparison (338-391).                                          *)
(***************************************************************************)
\* A node as the visitor meets it: its type, its start line, the text
\* generate(node) returns for it and the name of its id ("" without an id).
\* BlockLong is six lines of an indented body (15 characters).  BlockNear
\* differs from it in 3 characters, which is similarity 12/15, the
\* threshold itself; BlockFar differs from BlockLong in 4 (one of them an
\* added character), which is 12/16 and below the threshold, and from
\* BlockNear in 1, which is 15/16; BlockShort is below MIN_DUPLICATE_LENGTH.
BlockLong == Join(<< <<"a">>, <<" ", "b">>, <<" ", "a">>, <<" ", "b">>, <<" ", "a">>, <<"b">> >>)
BlockNear == Join(<< <<"a">>, <<" ", "b">>, <<" ", "a">>, <<" ", "c">>, <<" ", "c">>, <<"c">> >>)
BlockFar == Join(<< <<"a">>, <<" ", "b">>, <<" ", "a">>, <<" ", "c">>, <<" ", "c">>, <<"c", "c">> >>)
BlockShort == <<"a", "b">>

BlockTexts == {BlockLong, BlockNear, BlockFar, BlockShort}

BlockLines == 1..MaxBlockLine

\* arrow functions and class methods have no id; a function declaration has
DupNodes ==
    [type : {"ArrowFunctionExpression", "ClassMethod", "FunctionExpression",
             "CallExpression"},
     line : BlockLines, code : BlockTexts, id : {""}]
    \cup
    [type : {"FunctionDeclaration"}, line : BlockLines, code : BlockTexts, id : {"f"}]

\* a variant of IsBlockNode that takes function expressions too
IsBlockNodeWithExpressions(type) ==
    type \in {"FunctionDeclaration", "ClassMethod", "ArrowFunctionExpression",
              "FunctionExpression"}

\* lines 320-324: the node types that make a block
IsBlockNode(type) ==
    type \in {"FunctionDeclaration", "ClassMethod", "ArrowFunctionExpression"}

\* the same nodes, and each of them without its loc
ExtractNodes == DupNodes \cup {[node EXCEPT !.line = NoLoc] : node \in DupNodes}

\* a variant of LongEnough that keeps every fragment
LongEnoughAlways(code) == TRUE

\* line 326
LongEnough(code) == Len(code) >= MIN_DUPLICATE_LENGTH

\* line 331: path.node.id?.name || "anonymous"
BlockName(node) == IF node.id = "" THEN "anonymous" ELSE node.id

\* a variant of MapSet that leaves an existing key with its value
MapSetKeepFirst(map, loc, block) ==
    IF \E k \in 1..Len(map) : map[k].loc = loc
    THEN map
    ELSE Append(map, [loc |-> loc, code |-> block.code, type |-> block.type,
                      name |-> block.name])

\* lines 327-332: codeBlocks.set(location, block); an existing key keeps its
\* place among the entries and gets the new value
MapSet(map, loc, block) ==
    LET entry == [loc |-> loc, code |-> block.code, type |-> block.type, name |-> block.name]
    IN  IF \E k \in 1..Len(map) : map[k].loc = loc
        THEN [k \in 1..Len(map) |-> IF map[k].loc = loc THEN entry ELSE map[k]]
        ELSE Append(map, entry)

\* the decimal digits of a line number
RECURSIVE Digits(_)
Digits(n) == IF n < 10 THEN <<n>> ELSE Append(Digits(n \div 10), n % 10)

\* the order of Array.prototype.sort without a comparator: by the strings
RECURSIVE StringLess(_, _)
StringLess(a, b) ==
    IF a = <<>> THEN b # <<>>
    ELSE IF b = <<>> THEN FALSE
    ELSE IF Head(a) # Head(b) THEN Head(a) < Head(b)
    ELSE StringLess(Tail(a), Tail(b))

\* a variant of PairKey that is made of the smaller location only
PairKeySmaller(loc1, loc2) == <<Min(loc1, loc2)>>

\* a variant of PairKey that keeps the order of the two locations
PairKeyUnsorted(loc1, loc2) == <<loc1, loc2>>

\* line 342: [loc1, loc2].sort().join("-"); the joined string is kept as the
\* pair of numbers it is made of
PairKey(loc1, loc2) ==
    IF StringLess(Digits(loc2), Digits(loc1)) THEN <<loc2, loc1>> ELSE <<loc1, loc2>>

\* a variant of AboveThreshold that leaves the threshold itself out
AboveThresholdStrict(similarity) == FracLess(SIMILARITY_THRESHOLD, similarity)

\* line 346
AboveThreshold(similarity) == FracGeq(similarity, SIMILARITY_THRESHOLD)

\* lines 348-354
LineMapping(matches) ==
    [k \in 1..Len(matches) |->
        [block1Lines |-> [n \in 1..Len(matches[k]) |-> ItemAt(matches[k][n], 0)],
         block2Lines |-> [n \in 1..Len(matches[k]) |-> ItemAt(matches[k][n], 1)],
         code        |-> [n \in 1..Len(matches[k]) |-> ItemAt(matches[k][n], 2)]]]

\* Math.round(similarity * 100), line 357 (halves round up)
Percent(similarity) == (200 * similarity.num + similarity.den) \div (2 * similarity.den)

\* lines 355-385: the pushed issue; details.message is a rendering of
\* similarLines and is left out
DuplicateIssue(e1, e2, result) ==
    [line |-> Min(e1.loc, e2.loc),
     description |-> Percent(result.similarity),
     details |-> [block1 |-> [startLine |-> e1.loc, type |-> e1.type, name |-> e1.name],
                  block2 |-> [startLine |-> e2.loc, type |-> e2.type, name |-> e2.name],
                  similarLines |-> LineMapping(result.matches)]]

\* lines 339-390: the two nested codeBlocks.forEach, from the pair of
\* entries (i, j) on; returns the Set and the array they leave, and the
\* calls of analyzeSimilarity they made
RECURSIVE CompareFrom(_, _, _, _, _, _)
CompareFrom(map, i, j, pairs, found, calls) ==
    IF i > Len(map) THEN [pairs |-> pairs, issues |-> found, calls |-> calls]
    ELSE IF j > Len(map) THEN CompareFrom(map, i + 1, 1, pairs, found, calls)
    ELSE IF map[i].loc = map[j].loc \/ PairKey(map[i].loc, map[j].loc) \in pairs
         THEN CompareFrom(map, i, j + 1, pairs, found, calls)
    ELSE LET result == analyzeSimilarity(map[i].code, map[j].code)
         IN  CompareFrom(map, i, j + 1,
                         pairs \cup {PairKey(map[i].loc, map[j].loc)},
                         IF AboveThreshold(result.similarity)
                         THEN Append(found, DuplicateIssue(map[i], map[j], result))
                         ELSE found,
                         Append(calls, <<map[i].loc, map[j].loc>>))

DuplicateInit ==
    /\ dupPc = "idle"
    /\ dupAst = "none"
    /\ codeBlocks = <<>>
    /\ processedPairs = {}
    /\ dupIssues = <<>>
    /\ dropped = FALSE
    /\ similarityCalls = <<>>
    /\ entered = <<>>

\* the Duplicate Code check is not running
DuplicateIdle ==
    /\ dupPc = "off"
    /\ dupAst = "none"
    /\ codeBlocks = <<>>
    /\ processedPairs = {}
    /\ dupIssues = <<>>
    /\ dropped = FALSE
    /\ similarityCalls = <<>>
    /\ entered = <<>>

\* lines 243-261: parse; a parse error is caught and [] returned, otherwise
\* traverse starts with an empty Map
DupParse ==
    /\ dupPc = "idle"
    /\ \/ dupAst' = "error" /\ dupPc' = "returned"
       \/ dupAst' = "tree" /\ dupPc' = "traversing"
    /\ UNCHANGED <<codeBlocks, processedPairs, dupIssues, dropped, similarityCalls,
                   entered>>
    /\ UNCHANGED notDuplicate

\* line 327: path.node.loc?.start.line || 0
Location(node) == IF node.line = NoLoc THEN 0 ELSE node.line

\* lines 319-335: enter(path) for the next node of the tree in pre-order;
\* what becomes of the history entered is said where the action is used
Enter(node) ==
    /\ dupPc = "traversing"
    /\ IF IsBlockNode(node.type) /\ LongEnough(node.code)
       THEN codeBlocks' = MapSet(codeBlocks, Location(node),
                                 [code |-> node.code, type |-> node.type,
                                  name |-> BlockName(node)])
       ELSE UNCHANGED codeBlocks
    /\ dropped' = (dropped \/ (IsBlockNode(node.type) /\ Len(node.code) < MIN_DUPLICATE_LENGTH))
    /\ UNCHANGED <<dupPc, dupAst, processedPairs, dupIssues, similarityCalls>>
    /\ UNCHANGED notDuplicate

\* lines 338-391: traverse is over; every pair of blocks is compared and
\* check() returns issues
ComparePairs ==
    /\ dupPc = "traversing"
    /\ LET done == CompareFrom(codeBlocks, 1, 1, {}, <<>>, <<>>)
       IN  /\ processedPairs' = done.pairs
           /\ dupIssues' = done.issues
           /\ similarityCalls' = done.calls
    /\ dupPc' = "returned"
    /\ UNCHANGED <<dupAst, codeBlocks, dropped, entered>>
    /\ UNCHANGED notDuplicate

(***************************************************************************)
(* The unit-level pipeline: analyzeFile and analyzeProject                 *)
(* (src/detector.js 60-126).  A file is given by what reading it yields    *)
(* and by what each check finds in it; the checks that work on the text    *)
(* alone are inputs, the two checks that parse are given by what they find *)
(* in the tree when there is one.                                          *)
(***************************************************************************)
NestedSmell == "Nested Callbacks (Callback Hell)"
DuplicateSmell == "Duplicate Code"
LengthySmell == "Lengthy Lines"
UnusedSmell == "Unused Dependency"

\* the list exported by src/smells.js, in its order (the other checks work
\* on the text alone, as Lengthy Lines does)
codeSmells == <<LengthySmell, NestedSmell, DuplicateSmell, UnusedSmell>>

Occurrence(line, description) == [line |-> line, description |-> description]

DuplicateOccurrence(line, description, loc1, loc2) ==
    [line |-> line, description |-> description,
     details |-> [block1 |-> loc1, block2 |-> loc2]]

\* what the Nested Callbacks check finds in a tree: lines are not repeated
NestedOutcomes ==
    {<<>>, <<Occurrence(2, "depth 4"), Occurrence(1, "depth 5")>>}

\* three identical blocks on lines 1, 2 and 3
ThreeIdenticalBlocks ==
    <<DuplicateOccurrence(1, "100% similarity", 1, 2),
      DuplicateOccurrence(1, "100% similarity", 1, 3),
      DuplicateOccurrence(2, "100% similarity", 2, 3)>>

\* what the Duplicate Code check finds in a tree: one issue for each pair,
\* at the smaller of its two lines (no match; two identical blocks and a
\* third close to them; three identical blocks)
DuplicateOutcomes ==
    {<<>>,
     <<DuplicateOccurrence(1, "100% similarity", 1, 2),
       DuplicateOccurrence(1, "90% similarity", 1, 3),
       DuplicateOccurrence(2, "90% similarity", 2, 3)>>,
     ThreeIdenticalBlocks}

LengthyOutcomes == {<<>>, <<Occurrence(3, "line too long")>>}

FileNames == <<"a.js", "b.js", "c.js", "d.js">>

\* a file that cannot be read, an empty file, a file whose text parses and
\* a file whose text does not
Units ==
    [kind : {"unreadable", "empty"}, parses : {FALSE}, nested : {<<>>},
     duplicate : {<<>>}, lengthy : {<<>>}, imports : {{}}]
    \cup
    [kind : {"source"}, parses : {TRUE}, nested : NestedOutcomes,
     duplicate : DuplicateOutcomes, lengthy : LengthyOutcomes,
     imports : {{}, {"x"}}]
    \cup
    [kind : {"source"}, parses : {FALSE}, nested : {<<>>},
     duplicate : {<<>>}, lengthy : LengthyOutcomes, imports : {{}, {"x"}}]

Batches == UNION {[1..n -> Units] : n \in 0..MaxFiles}

Packages ==
    {[exists |-> FALSE, dependencies |-> <<>>],
     [exists |-> TRUE, dependencies |-> <<>>],
     [exists |-> TRUE, dependencies |-> <<"x", "y">>]}

\* null, or the two checks that parse
Selections ==
    {[given |-> FALSE, names |-> {}],
     [given |-> TRUE, names |-> {NestedSmell, DuplicateSmell}]}

\* a line written to the console
ConsoleLine(level, message) == [level |-> level, message |-> message]

\* what a call of smell.check ends with, and what it wrote to the console
Returned(occurrences) == [threw |-> FALSE, occurrences |-> occurrences, logged |-> <<>>]
Thrown == [threw |-> TRUE, occurrences |-> <<>>, logged |-> <<>>]

\* src/smells.js 105-108 and 256-259: console.error("Error parsing file:",
\* err.message); return []
CaughtParseError ==
    [threw |-> FALSE, occurrences |-> <<>>,
     logged |-> <<ConsoleLine("error", "Error parsing file:")>>]

\* a variant of NestedCallbacksCheck that lets the parse error escape
NestedCallbacksCheckNoCatch(unit) ==
    IF ~unit.parses THEN Thrown ELSE Returned(unit.nested)

\* src/smells.js 86-172: the parse error is caught and [] returned (105-108)
NestedCallbacksCheck(unit) ==
    IF ~unit.parses THEN CaughtParseError ELSE Returned(unit.nested)

\* src/smells.js 233-393: the parse error is caught and [] returned (256-259)
DuplicateCodeCheck(unit) ==
    IF ~unit.parses THEN CaughtParseError ELSE Returned(unit.duplicate)

\* src/smells.js 398-457, with no devDependencies: a warning at line 0
\* without package.json, else one issue at line 1 for each dependency that
\* the lines do not import
UnusedDependencyCheck(imports, pkg) ==
    IF ~pkg.exists
    THEN Returned(<<Occurrence(0, "package.json not found")>>)
    ELSE LET unused == SelectSeq(pkg.dependencies, LAMBDA dep : dep \notin imports)
         IN  Returned([k \in 1..Len(unused) |-> Occurrence(1, unused[k])])

\* smell.check(lines, filePath, projectRoot), src/detector.js 84
Check(smell, unit, pkg) ==
    CASE smell = NestedSmell -> NestedCallbacksCheck(unit)
      [] smell = DuplicateSmell -> DuplicateCodeCheck(unit)
      [] smell = UnusedSmell -> UnusedDependencyCheck(unit.imports, pkg)
      [] OTHER -> Returned(unit.lengthy)

\* src/detector.js 79-81 and 111-113
SmellsToCheck(selected) ==
    SelectSeq(codeSmells, LAMBDA name : ~selected.given \/ name \in selected.names)

\* smell.fix
Fix(smell) ==
    CASE smell = NestedSmell -> "flatten the callbacks"
      [] smell = DuplicateSmell -> "extract the common code"
      [] smell = UnusedSmell -> "remove the dependency"
      [] OTHER -> "break the line"

\* line 86: `${filePath}-${occurrence.line}-${smell.name}`, kept as the three
\* parts (within one file they determine the string)
FindingKey(file, line, smell) == <<file, line, smell>>

\* lines 88-94
Finding(file, occurrence, smell) ==
    [file |-> file, line |-> occurrence.line, smell |-> smell,
     description |-> occurrence.description, fix |-> Fix(smell)]

\* a variant of Record that stores every occurrence
RecordEvery(smellsDetected, file, smell, occurrence) ==
    Append(smellsDetected,
           [key |-> FindingKey(file, occurrence.line, smell),
            value |-> Finding(file, occurrence, smell)])

\* lines 86-95: the occurrence is stored unless its key is in the Map
Record(smellsDetected, file, smell, occurrence) ==
    LET key == FindingKey(file, occurrence.line, smell)
    IN  IF \E k \in 1..Len(smellsDetected) : smellsDetected[k].key = key
        THEN smellsDetected
        ELSE Append(smellsDetected,
                    [key |-> key, value |-> Finding(file, occurrence, smell)])

\* line 85: occurrences.forEach, from the k-th occurrence on
RECURSIVE RecordAll(_, _, _, _, _)
RecordAll(smellsDetected, file, smell, occurrences, k) ==
    IF k > Len(occurrences) THEN smellsDetected
    ELSE RecordAll(Record(smellsDetected, file, smell, occurrences[k]),
                   file, smell, occurrences, k + 1)

\* line 83: smellsToCheck.forEach, from the k-th smell on; an exception of a
\* check ends the loop and leaves analyzeFile
RECURSIVE RunSmells(_, _, _, _, _, _, _)
RunSmells(smellsDetected, logged, file, unit, pkg, smells, k) ==
    IF k > Len(smells)
    THEN [threw |-> FALSE, map |-> smellsDetected, logged |-> logged]
    ELSE LET outcome == Check(smells[k], unit, pkg)
         IN  IF outcome.threw
             THEN [threw |-> TRUE, map |-> smellsDetected,
                   logged |-> logged \o outcome.logged]
             ELSE RunSmells(RecordAll(smellsDetected, file, smells[k],
                                      outcome.occurrences, 1),
                            logged \o outcome.logged,
                            file, unit, pkg, smells, k + 1)

\* a variant of NewSmellsDetected that goes on with the Map of the previous
\* call
NewSmellsDetectedShared(previous) == previous

\* src/detector.js 76: const smellsDetected = new Map()
NewSmellsDetected(previous) == <<>>

\* src/detector.js 60-100: what the promise of analyzeFile settles with,
\* what the call wrote to the console and the Map it leaves
analyzeFile(file, unit, pkg, selected) ==
    IF unit.kind = "unreadable"
    THEN [threw |-> FALSE, findings |-> <<>>, map |-> smellsMap,
          logged |-> <<ConsoleLine("error", "Error reading file")>>]
    ELSE IF unit.kind = "empty"
    THEN [threw |-> FALSE, findings |-> <<>>, map |-> smellsMap,
          logged |-> <<ConsoleLine("warn", "Skipping empty file")>>]
    ELSE LET run == RunSmells(NewSmellsDetected(smellsMap), <<>>, file, unit, pkg,
                              SmellsToCheck(selected), 1)
         IN  [threw |-> run.threw,
              findings |-> [k \in 1..Len(run.map) |-> run.map[k].value],
              map |-> run.map,
              logged |-> run.logged]

ProjectInit ==
    /\ files \in Batches
    /\ package \in Packages
    /\ selectedSmells \in Selections
    /\ projPc = "files"
    /\ fileIndex = 1
    /\ results = <<>>
    /\ smellsMap = <<>>
    /\ console = <<>>

\* analyzeProject is not running
ProjectIdle ==
    /\ files = <<>>
    /\ package = [exists |-> FALSE, dependencies |-> <<>>]
    /\ selectedSmells = [given |-> FALSE, names |-> {}]
    /\ projPc = "off"
    /\ fileIndex = 1
    /\ results = <<>>
    /\ smellsMap = <<>>
    /\ console = <<>>

\* lines 105-108: one turn of the loop; a rejected analyzeFile rejects
\* analyzeProject
AnalyzeFile ==
    /\ projPc = "files"
    /\ fileIndex <= Len(files)
    /\ LET fileResults == analyzeFile(FileNames[fileIndex], files[fileIndex],
                                      package, selectedSmells)
       IN  /\ console' = console \o
                   [k \in 1..Len(fileResults.logged) |->
                       [during |-> fileIndex,
                        level |-> fileResults.logged[k].level,
                        message |-> fileResults.logged[k].message]]
           /\ smellsMap' = fileResults.map
           /\ IF fileResults.threw
              THEN projPc' = "rejected" /\ UNCHANGED <<fileIndex, results>>
              ELSE /\ results' = results \o fileResults.findings
                   /\ fileIndex' = fileIndex + 1
                   /\ UNCHANGED projPc
    /\ UNCHANGED <<files, package, selectedSmells>>
    /\ UNCHANGED notProject

\* lines 110-125: after the loop the occurrences of Unused Dependency for
\* package.json are appended as they are, and results is returned
ProjectSmells ==
    /\ projPc = "files"
    /\ fileIndex > Len(files)
    /\ results' =
           IF UnusedSmell \in {SmellsToCheck(selectedSmells)[k] :
                                   k \in 1..Len(SmellsToCheck(selectedSmells))}
              /\ package.exists
           THEN results \o UnusedDependencyCheck({}, package).occurrences
           ELSE results
    /\ projPc' = "returned"
    /\ UNCHANGED <<files, package, selectedSmells, fileIndex, smellsMap, console>>
    /\ UNCHANGED notProject

(***************************************************************************)
(* Specifications.                                                         *)
(***************************************************************************)
Init == NestedInit /\ SimilarityIdle /\ DuplicateIdle /\ ProjectIdle

Next ==
    \/ Parse
    \/ \E arg \in Nodes : EnterArgument(arg)
    \/ \E child \in Nodes, slot \in {"body", "key"} : EnterChild(child, slot)
    \/ Return
    \/ CallAgain

Spec == Init /\ [][Next]_vars

\* the same walk, with the parts of the tree it passes over drawn as well
NextPassOver ==
    \/ Next
    \/ \E node \in Nodes : PassOver(node)

SpecPassOver == Init /\ [][NextPassOver]_vars

\* the same walk over trees that may hold nodes of a malformed shape
NextMalformed ==
    \/ Next
    \/ \E child \in UnlocatedNodes, slot \in {"body", "key"} : EnterUnlocated(child, slot)
    \/ NullBody

SpecMalformed == Init /\ [][NextMalformed]_vars

InitSimilarity == NestedIdle /\ SimilarityInit /\ DuplicateIdle /\ ProjectIdle

NextSimilarity == AnalyzeSimilarity \/ LevenshteinDistance

SpecSimilarity == InitSimilarity /\ [][NextSimilarity]_vars

InitDuplicate == NestedIdle /\ SimilarityIdle /\ DuplicateInit /\ ProjectIdle

NextDuplicate ==
    \/ DupParse
    \/ \E node \in DupNodes : Enter(node) /\ UNCHANGED entered
    \/ ComparePairs

SpecDuplicate == InitDuplicate /\ [][NextDuplicate]_vars

\* the same check on a tree of at most MaxEntered nodes, each entered node
\* being kept
NextExtract ==
    \/ DupParse
    \/ \E node \in ExtractNodes :
           /\ Len(entered) < MaxEntered
           /\ Enter(node)
           /\ entered' = Append(entered, node)
    \/ ComparePairs

SpecExtract == InitDuplicate /\ [][NextExtract]_vars

InitProject == NestedIdle /\ SimilarityIdle /\ DuplicateIdle /\ ProjectInit

NextProject == AnalyzeFile \/ ProjectSmells

SpecProject == InitProject /\ [][NextProject]_vars

(***************************************************************************)
(* Properties of the Nested Callbacks check (specification Spec).          *)
(***************************************************************************)
IssueLines == {issues[i].line : i \in 1..Len(issues)}

NoLineTwice == \A i, j \in 1..Len(issues) : i # j => issues[i].line # issues[j].line

\* C1: when no visited node has more than maxAllowedDepth function-like
\* nodes (declaration, expression, arrow) on its path from the root, reached
\* through body, another key or a call's arguments, the check returns an
\* empty list.
C1_ShallowTreeNoViolation ==
    (pc = "returned" /\ ast = "tree" /\ maxNest <= maxAllowedDepth) => issues = <<>>

\* a tree nested exactly to the threshold has been walked to the end
C1_Witness ==
    pc = "returned" /\ ast = "tree" /\ maxNest = maxAllowedDepth /\ issues = <<>>

\* C2: the returned list has exactly one violation for each line on which
\* a visited node deeper than the threshold starts, and no line twice.  This
\* is stated of every walked tree, hence of every tree that holds a chain of
\* maxAllowedDepth + k arrow functions.
C2_OneViolationPerLine ==
    pc = "returned" => (NoLineTwice /\ IssueLines = triggered)

\* a chain of maxAllowedDepth + 1 arrows was walked; the two nodes deeper
\* than the threshold (the last arrow and its block) start on the same line,
\* which is reported once
C2_Witness ==
    /\ pc = "returned"
    /\ shape.stage = "block"
    /\ shape.arrows = maxAllowedDepth + 1
    /\ shape.block = shape.inner
    /\ triggered = {shape.inner}
    /\ Len(issues) = 1

\* C3 as stated: for the chain a => b => c => d => {} the check returns one
\* violation, of depth 4, at the start line of the outermost arrow, wherever
\* the four arrows start.
C3_AtOutermostLine ==
    (pc = "returned" /\ shape.stage = "block" /\ shape.arrows = 4) =>
        issues = <<NestingIssue(shape.outer, maxAllowedDepth + 1)>>

\* C3 amended: the first violation, of depth 4, is at the start line of the
\* innermost (fourth) arrow; it is the only one when the empty block body
\* starts on that line, and a block starting on a later line adds a second
\* violation of depth 4 at its own line.
C3_AtInnermostLine ==
    (pc = "returned" /\ shape.stage = "block" /\ shape.arrows = 4) =>
        issues = IF shape.block = shape.inner
                 THEN <<NestingIssue(shape.inner, maxAllowedDepth + 1)>>
                 ELSE <<NestingIssue(shape.inner, maxAllowedDepth + 1),
                        NestingIssue(shape.block, maxAllowedDepth + 1)>>

\* the chain was walked with its arrows starting on different lines
C3_Witness ==
    /\ pc = "returned"
    /\ shape.stage = "block"
    /\ shape.arrows = 4
    /\ shape.outer < shape.inner
    /\ shape.block = shape.inner
    /\ Len(issues) = 1

(***************************************************************************)
(* Properties of analyzeSimilarity (specification SpecSimilarity).  The    *)
(* quotient (longerLength - distance) / longerLength of two integers below *)
(* 2^53 is the double nearest to the fraction, so it is 1.0 exactly when   *)
(* distance is 0 and it compares with another such quotient as the         *)
(* fractions do.                                                           *)
(***************************************************************************)
\* C6: for every text A, analyzeSimilarity(A, A) returns similarity 1.0, by
\* the test str1 === str2 and without a call of levenshteinDistance.
C6_Reflexive ==
    (simPc = "returned" /\ simStr1 = simStr2) =>
        (FracEq(analysis.similarity, One) /\ ~analysis.distanceRun)

\* a text shorter than MIN_DUPLICATE_LENGTH was compared with itself
C6_Witness ==
    /\ simPc = "returned"
    /\ simStr1 = simStr2
    /\ Len(simStr1) \in 1..(MIN_DUPLICATE_LENGTH - 1)
    /\ FracEq(analysis.similarity, One)

\* C7: the similarity of (A, B) equals the similarity of (B, A), also for
\* texts of equal length and when one text is shorter than
\* MIN_DUPLICATE_LENGTH.
C7_Symmetric ==
    simPc = "returned" =>
        FracEq(analysis.similarity, analyzeSimilarity(simStr2, simStr1).similarity)

\* two different texts of equal length went through levenshteinDistance
C7_Witness ==
    /\ simPc = "returned"
    /\ simStr1 # simStr2
    /\ Len(simStr1) = Len(simStr2)
    /\ analysis.distanceRun
    /\ analysis.similarity.num > 0

\* C8: texts that are not character-identical score strictly less than 1.0.
C8_DifferentBelowOne ==
    (simPc = "returned" /\ simStr1 # simStr2) => FracLess(analysis.similarity, One)

\* two texts that differ in one character ("a renamed identifier")
C8_Witness ==
    /\ simPc = "returned"
    /\ Len(simStr1) = Len(simStr2)
    /\ Len(simStr1) >= MIN_DUPLICATE_LENGTH
    /\ Cardinality({i \in 1..Len(simStr1) : simStr1[i] # simStr2[i]}) = 1
    /\ analysis.similarity.num = analysis.similarity.den - 1


(***************************************************************************)
(* Properties of the Duplicate Code check (SpecDuplicate).                 *)
(***************************************************************************)
\* the entry of codeBlocks stored under a location
BlockAt(loc) ==
    LET k == CHOOSE k \in 1..Len(codeBlocks) : codeBlocks[k].loc = loc
    IN  codeBlocks[k]

\* the two locations an issue is about
PairOf(issue) == {issue.details.block1.startLine, issue.details.block2.startLine}

\* the only blocks extracted are three arrow functions with one text, which
\* start on three lines
ThreeIdenticalArrows ==
    /\ Len(codeBlocks) = 3
    /\ \A k \in 1..3 :
        /\ codeBlocks[k].type = "ArrowFunctionExpression"
        /\ codeBlocks[k].code = codeBlocks[1].code

\* C4: when the only extracted blocks are three arrow functions with identical
\* text starting at three different lines, the check reports exactly 3
\* matches, one for each unordered pair of the three blocks, and each match
\* has scalar similarity 1.0 (reported as 100%).
C4_ThreeIdenticalThreeMatches ==
    (dupPc = "returned" /\ ThreeIdenticalArrows) =>
        /\ Len(dupIssues) = 3
        /\ {PairOf(dupIssues[k]) : k \in 1..3}
               = {{a, b} : a, b \in {codeBlocks[k].loc : k \in 1..3}}
                 \ {{a} : a \in BlockLines}
        /\ \A k \in 1..3 :
            /\ dupIssues[k].description = 100
            /\ \A a, b \in PairOf(dupIssues[k]) :
                   a # b => FracEq(analyzeSimilarity(BlockAt(a).code, BlockAt(b).code).similarity, One)

C4_Witness ==
    /\ dupPc = "returned"
    /\ ThreeIdenticalArrows
    /\ codeBlocks[1].code = BlockLong
    /\ Len(dupIssues) = 3

\* the issue is about two blocks with the same text of six lines
IdenticalSixLines(issue) ==
    LET code1 == BlockAt(issue.details.block1.startLine).code
        code2 == BlockAt(issue.details.block2.startLine).code
    IN  code1 = code2 /\ Len(Split(code1)) = 6

\* the cluster that maps lines 1..6 of a text to lines 1..6 with their
\* trimmed text
SixLineCluster(code) ==
    [block1Lines |-> [n \in 1..6 |-> JsNumber(n)],
     block2Lines |-> [n \in 1..6 |-> JsNumber(n)],
     code        |-> [n \in 1..6 |-> JsString(Trim(Split(code)[n]))]]

\* C5: when two blocks with identical 6-line texts are matched, the match
\* carries exactly one line-cluster, and that cluster maps lines 1..6 of the
\* first block to lines 1..6 of the second block with the trimmed text of
\* each of the 6 lines.
C5_ClusterSpansSixLines ==
    dupPc = "returned" =>
        \A k \in 1..Len(dupIssues) :
            IdenticalSixLines(dupIssues[k]) =>
                dupIssues[k].details.similarLines
                    = << SixLineCluster(BlockAt(dupIssues[k].details.block1.startLine).code) >>

\* C9: no match reported by the Duplicate Code check refers to a block whose
\* regenerated text is shorter than MIN_DUPLICATE_LENGTH (5 characters), as
\* block1 or as block2.
C9_NoShortBlockInMatch ==
    \A k \in 1..Len(dupIssues) :
        \A b \in {dupIssues[k].details.block1, dupIssues[k].details.block2} :
            \E n \in 1..Len(codeBlocks) :
                /\ codeBlocks[n].loc = b.startLine
                /\ codeBlocks[n].type = b.type
                /\ codeBlocks[n].name = b.name
                /\ Len(codeBlocks[n].code) >= MIN_DUPLICATE_LENGTH

C9_Witness ==
    /\ dupPc = "returned"
    /\ dropped
    /\ dupIssues # <<>>


(***************************************************************************)
(* Properties of the unit-level pipeline (SpecProject).                    *)
(***************************************************************************)
\* the text of the i-th file of the batch does not parse
Unparsable(i) == files[i].kind = "source" /\ ~files[i].parses

\* the text of the i-th file of the batch parses
WellFormed(i) == files[i].kind = "source" /\ files[i].parses

\* the findings of results that belong to a file
FindingsOf(file) ==
    SelectSeq(results, LAMBDA r : "file" \in DOMAIN r /\ r.file = file)

ParseDiagnostics(i) ==
    SelectSeq(console, LAMBDA l : l.during = i /\ l.message = "Error parsing file:")

\* both checks that parse run on every file
BothAnalyzersRun ==
    {NestedSmell, DuplicateSmell}
        \subseteq {SmellsToCheck(selectedSmells)[k] :
                       k \in 1..Len(SmellsToCheck(selectedSmells))}

\* C11: for a unit whose source fails to parse, the parse failure is
\* surfaced as exactly one diagnostic for the unit, not one per analyzer,
\* when both the Nested Callbacks check and the Duplicate Code check run on
\* that unit.
C11_OneDiagnosticPerUnit ==
    \A i \in 1..Len(files) :
        (Unparsable(i) /\ i < fileIndex /\ BothAnalyzersRun)
            => Len(ParseDiagnostics(i)) = 1

\* what a report reads as file, line and rule name of a finding; the
\* occurrences that analyzeProject appends as they are have neither file nor
\* smell
Triple(r) ==
    <<IF "file" \in DOMAIN r THEN r.file ELSE "undefined",
      r.line,
      IF "smell" \in DOMAIN r THEN r.smell ELSE "undefined">>

NoRepeatedTriple(findings) ==
    \A j, k \in 1..Len(findings) : j # k => Triple(findings[j]) # Triple(findings[k])

\* the part of C12 about analyzeFile: the findings of one file have
\* different triples
FileFindingsDistinct ==
    \A i \in 1..Len(files) :
        NoRepeatedTriple(analyzeFile(FileNames[i], files[i], package,
                                     selectedSmells).findings)

\* C12: in the list of findings returned by one analysis pass (analyzeFile
\* for one file, and analyzeProject over a batch with its project-level
\* findings), no two findings have the same (file, line, rule name) triple.
C12_NoRepeatedTriple ==
    /\ FileFindingsDistinct
    /\ projPc = "returned" => NoRepeatedTriple(results)

\* what analyzeFile returns for the i-th file of the batch
FileFindings(i) ==
    analyzeFile(FileNames[i], files[i], package, selectedSmells).findings

\* C13: the sequence of findings returned for one source unit (analyzeFile)
\* is ordered by non-decreasing line number, for every combination of checks
\* and occurrences.
C13_OrderedByLine ==
    \A i \in 1..Len(files) :
        \A j, k \in 1..Len(FileFindings(i)) :
            j < k => FileFindings(i)[j].line <= FileFindings(i)[k].line

\* C14: every Duplicate Code finding in the value returned by analyzeFile
\* carries the structured match detail of the occurrence it was made from
\* (both blocks and the line clusters).
C14_DetailKept ==
    \A i \in 1..Len(files) :
        \A k \in 1..Len(FileFindings(i)) :
            FileFindings(i)[k].smell = DuplicateSmell =>
                /\ "details" \in DOMAIN FileFindings(i)[k]
                /\ \E n \in 1..Len(files[i].duplicate) :
                       /\ files[i].duplicate[n].line = FileFindings(i)[k].line
                       /\ files[i].duplicate[n].details = FileFindings(i)[k].details

(***************************************************************************)
(* Further properties of the Duplicate Code check (SpecDuplicate).         *)
(***************************************************************************)
\* the issues about the two locations, in either order
IssuesAbout(loc1, loc2) ==
    {k \in 1..Len(dupIssues) : PairOf(dupIssues[k]) = {loc1, loc2}}

\* C15: for every pair of extracted blocks at different start lines, a match
\* is emitted if and only if their scalar similarity is at least the
\* threshold 0.8 (boundary inclusive), i.e. if and only if the texts are
\* identical or 5 * editDistance(A, B) <= max(len A, len B).
C15_EmittedIffAboveThreshold ==
    dupPc = "returned" /\ dupAst = "tree" =>
        \A m, n \in 1..Len(codeBlocks) :
            codeBlocks[m].loc # codeBlocks[n].loc =>
                LET A == codeBlocks[m].code
                    B == codeBlocks[n].code
                IN  (IssuesAbout(codeBlocks[m].loc, codeBlocks[n].loc) # {})
                    <=> \/ A = B
                        \/ 5 * levenshteinDistance(A, B) <= Max(Len(A), Len(B))

\* a pair at the threshold is emitted, a pair below it is not
C15_Witness ==
    /\ dupPc = "returned"
    /\ Len(codeBlocks) = 3
    /\ {codeBlocks[k].code : k \in 1..3} = {BlockLong, BlockNear, BlockFar}
    /\ 5 * levenshteinDistance(BlockLong, BlockNear) = Len(BlockLong)
    /\ 5 * levenshteinDistance(BlockLong, BlockFar) > Len(BlockFar)
    /\ Len(dupIssues) = 2
    /\ \E k \in 1..2 : dupIssues[k].description = 80

(***************************************************************************)
(* Further properties of analyzeSimilarity (SpecSimilarity).               *)
(***************************************************************************)
\* C16: for every pair of non-empty texts the scalar similarity lies in
\* [0, 1]: the edit distance d satisfies |len A - len B| <= d <=
\* max(len A, len B), so (maxLen - d) / maxLen is never negative and never
\* above 1.
C16_SimilarityInUnitInterval ==
    (simPc = "returned" /\ simStr1 # <<>> /\ simStr2 # <<>>) =>
        LET d == levenshteinDistance(simStr1, simStr2)
            maxLen == Max(Len(simStr1), Len(simStr2))
            minLen == Min(Len(simStr1), Len(simStr2))
        IN  /\ maxLen - minLen <= d
            /\ d <= maxLen
            /\ analysis.similarity.den > 0
            /\ 0 <= analysis.similarity.num
            /\ analysis.similarity.num <= analysis.similarity.den
            /\ ScalarSimilarity(simStr1, simStr2).num >= 0
            /\ ScalarSimilarity(simStr1, simStr2).num <= ScalarSimilarity(simStr1, simStr2).den

\* texts of different lengths with no character in common: the distance is
\* the longer length and the similarity is 0
C16_Witness ==
    /\ simPc = "returned"
    /\ Len(simStr1) >= MIN_DUPLICATE_LENGTH
    /\ Len(simStr2) > Len(simStr1)
    /\ analysis.distanceRun
    /\ levenshteinDistance(simStr1, simStr2) = Len(simStr2)
    /\ analysis.similarity.num = 0

(***************************************************************************)
(* Further properties of the Nested Callbacks check (Spec).                *)
(***************************************************************************)
\* C17: the depth at which a visited node is evaluated equals the number of
\* function declarations, function expressions and arrow functions on the
\* path from the root to the node, the node included, whatever subtrees
\* were walked before it; class methods do not count.
C17_DepthIsFunctionNodesOnPath ==
    \A k \in 1..Len(callStack) : callStack[k].depth = callStack[k].nest

\* a function node directly under the root is evaluated at depth 1 after an
\* earlier subtree has gone beyond the threshold
C17_Witness ==
    /\ pc = "walking"
    /\ Len(callStack) = 2
    /\ issues # <<>>
    /\ Top.depth = 1
    /\ Top.nest = 1

\* C18: the result of one top-level call is exactly one violation for each
\* start line on which some visited node is evaluated at a depth above the
\* threshold, carrying the depth of the first such node in the order of the
\* walk; depth 3 never triggers and depth 4 does; the set of reported lines
\* is new for each top-level call.
C18_OneViolationPerDeepLine ==
    pc = "returned" =>
        /\ {<<issues[k].line, issues[k].depth>> : k \in 1..Len(issues)} = firstDeep
        /\ Len(issues) = Cardinality(firstDeep)
        /\ \A k \in 1..Len(issues) : issues[k].depth >= maxAllowedDepth + 1
        /\ (maxNest = maxAllowedDepth + 1) = (issues # <<>>)

\* two nodes of one line lie beyond the threshold, at depths 4 and 5; the
\* line is reported with the depth of the first
C18_Witness ==
    /\ pc = "walking"
    /\ \E k, m \in 1..Len(callStack) :
        /\ k < m
        /\ callStack[k].line = callStack[m].line
        /\ callStack[k].depth = maxAllowedDepth + 1
        /\ callStack[m].depth = maxAllowedDepth + 2
        /\ issues = <<NestingIssue(callStack[k].line, maxAllowedDepth + 1)>>

\* C19: the walk descends into every function-like argument of a call, into
\* body and into every other property that holds children, so that every
\* function-like node enclosed by more than maxAllowedDepth - 1 function-like
\* ancestors has its start line among the reported lines.
C19_EveryDeepFunctionReported ==
    pc = "returned" =>
        /\ triggered \subseteq IssueLines
        /\ passedOver # 0 => passedOver \in IssueLines

\* the calls of analyzeSimilarity on the blocks at two locations, in either
\* order
CallsOn(loc1, loc2) ==
    {k \in 1..Len(similarityCalls) :
        {similarityCalls[k][1], similarityCalls[k][2]} = {loc1, loc2}}

\* C20: each unordered pair of extracted blocks with different start lines is
\* passed to analyzeSimilarity exactly once (not in both orders, and not
\* skipped for a key shared with another pair), no block is compared with
\* itself, and so at most B * (B - 1) / 2 matches are reported for B blocks.
C20_EachPairComparedOnce ==
    dupPc = "returned" /\ dupAst = "tree" =>
        /\ \A m, n \in 1..Len(codeBlocks) :
               m # n => Cardinality(CallsOn(codeBlocks[m].loc, codeBlocks[n].loc)) = 1
        /\ \A k \in 1..Len(similarityCalls) :
               similarityCalls[k][1] # similarityCalls[k][2]
        /\ 2 * Len(similarityCalls) = Len(codeBlocks) * (Len(codeBlocks) - 1)
        /\ 2 * Len(dupIssues) <= Len(codeBlocks) * (Len(codeBlocks) - 1)

\* three blocks give three calls, of which one pair is below the threshold
C20_Witness ==
    /\ dupPc = "returned"
    /\ Len(codeBlocks) = 3
    /\ Len(similarityCalls) = 3
    /\ Len(dupIssues) = 2

(***************************************************************************)
(* The edit distance of two texts over Alphabet, by its definition: the    *)
(* least number of single-character insertions, deletions and              *)
(* substitutions that lead from one to the other.  A shortest sequence of  *)
(* edits can be ordered so that no text on the way is longer than the      *)
(* longer of the two ends, so texts of more than MaxLen characters are     *)
(* left out.                                                               *)
(***************************************************************************)
\* the texts one edit away from s (and s itself, by substituting a
\* character for itself)
OneEdit(s) ==
    {SubSeq(s, 1, k - 1) \o SubSeq(s, k + 1, Len(s)) : k \in 1..Len(s)}
    \cup {[s EXCEPT ![k] = c] : k \in 1..Len(s), c \in Alphabet}
    \cup IF Len(s) < MaxLen
         THEN {SubSeq(s, 1, k) \o <<c>> \o SubSeq(s, k + 1, Len(s)) :
                   k \in 0..Len(s), c \in Alphabet}
         ELSE {}

\* balls[k + 1] is the set of texts at most k edits away from the start,
\* for k = 0..radius
RECURSIVE EditBalls(_, _)
EditBalls(balls, radius) ==
    IF Len(balls) > radius THEN balls
    ELSE EditBalls(Append(balls, balls[Len(balls)]
                                 \cup UNION {OneEdit(u) : u \in balls[Len(balls)]}),
                   radius)

\* for every text, its balls of radius 0..MaxLen
EditBallsOf == {<<s, EditBalls(<< {s} >>, MaxLen)>> : s \in CharTexts}

EditDistance(s, t) ==
    LET balls == (CHOOSE entry \in EditBallsOf : entry[1] = s)[2]
    IN  CHOOSE k \in 0..MaxLen :
            /\ t \in balls[k + 1]
            /\ k > 0 => t \notin balls[k]

\* C21: for every pair of texts over Alphabet of at most MaxLen characters,
\* either of them possibly empty, levenshteinDistance returns the least
\* number of single-character insertions, deletions and substitutions that
\* turn the first text into the second.
C21_DistanceIsEditDistance ==
    (simPc = "measured" /\ simStr1 \in CharTexts /\ simStr2 \in CharTexts) =>
        measured = EditDistance(simStr1, simStr2)

\* an empty text against one of full length
C21_Witness ==
    /\ simPc = "measured"
    /\ simStr1 = <<>>
    /\ simStr2 \in CharTexts
    /\ Len(simStr2) = MaxLen
    /\ measured = MaxLen

\* two texts of different lengths that need a substitution as well
C21_WitnessMixed ==
    /\ simPc = "measured"
    /\ simStr1 = <<"a", "a", "b">>
    /\ simStr2 = <<"b", "b">>
    /\ measured = 2

\* lines i .. i + n - 1 of the first text and j .. j + n - 1 of the second
\* (1-based) agree after trimming
SharedRun(lines1, lines2, i, j, n) ==
    /\ i + n - 1 <= Len(lines1)
    /\ j + n - 1 <= Len(lines2)
    /\ \A k \in 0..(n - 1) : Trim(lines1[i + k]) = Trim(lines2[j + k])

\* a shared run that cannot be extended at either end
MaximalRun(lines1, lines2, i, j, n) ==
    /\ SharedRun(lines1, lines2, i, j, n)
    /\ ~(i > 1 /\ j > 1 /\ Trim(lines1[i - 1]) = Trim(lines2[j - 1]))
    /\ ~SharedRun(lines1, lines2, i, j, n + 1)

\* the cluster that lists such a run
ClusterOf(lines1, i, j, n) ==
    [k \in 1..n |-> ArrayItem(<<JsNumber(i + k - 1), JsNumber(j + k - 1),
                                JsString(Trim(lines1[i + k - 1]))>>)]

\* the entries of a cluster move on by one line in both texts
ConsecutiveLines(cluster) ==
    \A k \in 1..(Len(cluster) - 1) :
        /\ cluster[k + 1].elems[1].num = cluster[k].elems[1].num + 1
        /\ cluster[k + 1].elems[2].num = cluster[k].elems[2].num + 1

\* C22: for two different texts that are both compared line by line, every
\* run of 2 or more consecutive lines of the first whose trimmed texts equal
\* those of consecutive lines of the second is reported as one cluster
\* listing the 1-based lines of the run in both texts and the shared text,
\* and every reported cluster has at least 2 entries, consecutive in both
\* texts.
C22_RunsReportedAsClusters ==
    (simPc = "returned" /\ analysis.distanceRun) =>
        LET lines1 == Split(simStr1)
            lines2 == Split(simStr2)
            reported == {analysis.matches[c] : c \in 1..Len(analysis.matches)}
        IN  /\ \A i \in 1..Len(lines1), j \in 1..Len(lines2), n \in 2..Len(lines1) :
                   MaximalRun(lines1, lines2, i, j, n) =>
                       ClusterOf(lines1, i, j, n) \in reported
            /\ \A cluster \in reported :
                   Len(cluster) >= 2 /\ ConsecutiveLines(cluster)

\* the first half of C22 alone: every shared run is reported
C22_EveryRunReported ==
    (simPc = "returned" /\ analysis.distanceRun) =>
        LET lines1 == Split(simStr1)
            lines2 == Split(simStr2)
            reported == {analysis.matches[c] : c \in 1..Len(analysis.matches)}
        IN  \A i \in 1..Len(lines1), j \in 1..Len(lines2), n \in 2..Len(lines1) :
                MaximalRun(lines1, lines2, i, j, n) =>
                    ClusterOf(lines1, i, j, n) \in reported

\* the second half of C22 alone: every cluster is a run in both texts
C22_EveryClusterIsARun ==
    (simPc = "returned" /\ analysis.distanceRun) =>
        \A c \in 1..Len(analysis.matches) :
            Len(analysis.matches[c]) >= 2 /\ ConsecutiveLines(analysis.matches[c])

\* C23: for every pair of texts of which at least one is shorter than
\* MIN_DUPLICATE_LENGTH, analyzeSimilarity returns similarity 0 and no
\* clusters.
C23_ShortPairScoresZero ==
    (simPc = "returned"
        /\ (Len(simStr1) < MIN_DUPLICATE_LENGTH \/ Len(simStr2) < MIN_DUPLICATE_LENGTH)) =>
        /\ analysis.similarity.num = 0
        /\ analysis.matches = <<>>

\* what does hold: a short pair of two different texts scores 0 with no
\* clusters, and a pair of one short text with itself scores 1
C23_ShortPairScoresZeroUnlessIdentical ==
    (simPc = "returned"
        /\ (Len(simStr1) < MIN_DUPLICATE_LENGTH \/ Len(simStr2) < MIN_DUPLICATE_LENGTH)) =>
        IF simStr1 = simStr2
        THEN FracEq(analysis.similarity, One) /\ Len(analysis.matches) = 1
        ELSE analysis.similarity.num = 0 /\ analysis.matches = <<>>

(***************************************************************************)
(* Properties of the block extraction (specification SpecExtract).         *)
(***************************************************************************)
\* the tree came from the parser: every entered node has a location
AllLocated == \A k \in 1..Len(entered) : entered[k].line # NoLoc

\* the k-th entered node is a function declaration, a class method or an
\* arrow function whose regenerated text has at least 5 characters
Qualifies(k) ==
    /\ entered[k].type \in {"FunctionDeclaration", "ClassMethod", "ArrowFunctionExpression"}
    /\ Len(entered[k].code) >= 5

\* C24: the result of the extraction holds a block for a start line exactly
\* if a function declaration, class method or arrow function with a
\* regenerated text of at least 5 characters was entered there; function
\* expressions, nodes of other kinds and shorter fragments make no block.
C24_BlocksOnlyFromQualifyingNodes ==
    (dupAst = "tree" /\ AllLocated) =>
        /\ \A b \in 1..Len(codeBlocks) :
               \E k \in 1..Len(entered) :
                   /\ Qualifies(k)
                   /\ entered[k].line = codeBlocks[b].loc
                   /\ entered[k].type = codeBlocks[b].type
                   /\ entered[k].code = codeBlocks[b].code
        /\ \A k \in 1..Len(entered) :
               Qualifies(k) => \E b \in 1..Len(codeBlocks) : codeBlocks[b].loc = entered[k].line

\* a function expression with a long text and an arrow function with a
\* short one were entered and the result is empty
C24_Witness ==
    /\ dupPc = "returned"
    /\ AllLocated
    /\ \E k \in 1..Len(entered) :
           entered[k].type = "FunctionExpression" /\ Len(entered[k].code) >= 5
    /\ \E k \in 1..Len(entered) :
           entered[k].type = "ArrowFunctionExpression" /\ Len(entered[k].code) < 5
    /\ codeBlocks = <<>>

\* a call expression is passed by and a class method on the next line makes
\* the only block
C24_WitnessBlock ==
    /\ dupPc = "returned"
    /\ Len(entered) = 2
    /\ entered[1].type = "CallExpression" /\ entered[1].line = 1
    /\ entered[2].type = "ClassMethod" /\ entered[2].line = 2
    /\ Len(codeBlocks) = 1
    /\ codeBlocks[1].loc = 2

\* the entered nodes that qualify and are keyed by loc, by their place in
\* the traversal
QualifyingAt(loc) ==
    {k \in 1..Len(entered) : Qualifies(k) /\ Location(entered[k]) = loc}

\* C25: the extracted collection holds at most one block per start line, and
\* when several qualifying nodes share a start line the block kept for it is
\* that of the node entered last, with that node's text, kind and name.
C25_LastNodeOfALineKept ==
    dupAst = "tree" =>
        /\ \A a, b \in 1..Len(codeBlocks) : a # b => codeBlocks[a].loc # codeBlocks[b].loc
        /\ \A b \in 1..Len(codeBlocks) :
               /\ QualifyingAt(codeBlocks[b].loc) # {}
               /\ LET last == CHOOSE k \in QualifyingAt(codeBlocks[b].loc) :
                                  \A h \in QualifyingAt(codeBlocks[b].loc) : h <= k
                  IN  /\ codeBlocks[b].code = entered[last].code
                      /\ codeBlocks[b].type = entered[last].type
                      /\ codeBlocks[b].name = IF entered[last].id = ""
                                              THEN "anonymous" ELSE entered[last].id

\* a function declaration and then an arrow function with another text
\* start on line 2; the block of line 2 is the arrow function
C25_Witness ==
    /\ dupPc = "returned"
    /\ Len(entered) = 2
    /\ entered[1].type = "FunctionDeclaration" /\ entered[1].line = 2
    /\ entered[1].code = BlockLong
    /\ entered[2].type = "ArrowFunctionExpression" /\ entered[2].line = 2
    /\ entered[2].code = BlockNear
    /\ codeBlocks = << [loc |-> 2, code |-> BlockNear,
                        type |-> "ArrowFunctionExpression", name |-> "anonymous"] >>

(***************************************************************************)
(* Malformed node shapes (specifications SpecMalformed and SpecExtract).   *)
(***************************************************************************)
\* C26: a node that lacks its location or its body is treated as no data:
\* the walk of detectNestedClosures emits no violation for it and is not
\* ended by a fault because of it.
C26_MalformedNodeIsNoData ==
    /\ pc # "threw"
    /\ \A k \in 1..Len(issues) : issues[k].line # 0

\* the part of C26 about the walk ending in a fault, alone
C26_NoFault == pc # "threw"

\* the part of C26 about violations, alone: no violation is emitted for a
\* node without loc (the nodes with a loc start on line 1 or later)
C26_NoViolationWithoutLocation == \A k \in 1..Len(issues) : issues[k].line # 0

\* the part of C26 about the extraction: no block is recorded for a node
\* without loc (specification SpecExtract)
C26_NoBlockWithoutLocation == \A b \in 1..Len(codeBlocks) : codeBlocks[b].loc # 0

(***************************************************************************)
(* Independence of the units of a batch (specification SpecProject).       *)
(***************************************************************************)
\* what the checks give for the i-th unit analysed by itself, starting from
\* an empty Map
FindingsAlone(i) ==
    IF files[i].kind # "source" THEN <<>>
    ELSE LET run == RunSmells(<<>>, <<>>, FileNames[i], files[i], package,
                              SmellsToCheck(selectedSmells), 1)
         IN  [k \in 1..Len(run.map) |-> run.map[k].value]

FindingsAt(file, smell, line) ==
    SelectSeq(FindingsOf(file), LAMBDA r : r.smell = smell /\ r.line = line)

\* the first of the occurrences at a line
FirstAt(occurrences, line) ==
    occurrences[CHOOSE k \in 1..Len(occurrences) :
                    /\ occurrences[k].line = line
                    /\ \A h \in 1..(k - 1) : occurrences[h].line # line]

\* the rules checked for the batch, as a set
CheckedSmells ==
    {SmellsToCheck(selectedSmells)[k] : k \in 1..Len(SmellsToCheck(selectedSmells))}

\* C28: of several occurrences of one rule at one line of a file analyzeFile
\* keeps the first only, with its description; the matches of three
\* identical blocks at lines 1 < 2 < 3 are reported at lines 1, 1 and 2, so
\* they give 2 Duplicate Code findings, not 3.
C28_FirstOccurrencePerLineKept ==
    \A i \in 1..Len(files) :
        (i < fileIndex /\ files[i].kind = "source") =>
            /\ \A smell \in CheckedSmells :
                   LET occurrences == Check(smell, files[i], package).occurrences
                   IN  \A k \in 1..Len(occurrences) :
                           LET kept == FindingsAt(FileNames[i], smell, occurrences[k].line)
                           IN  /\ Len(kept) = 1
                               /\ kept[1].description
                                      = FirstAt(occurrences, occurrences[k].line).description
            /\ (files[i].parses /\ files[i].duplicate = ThreeIdenticalBlocks
                    /\ DuplicateSmell \in CheckedSmells) =>
                   /\ Len(SelectSeq(FindingsOf(FileNames[i]),
                                    LAMBDA r : r.smell = DuplicateSmell)) = 2
                   /\ Len(FindingsAt(FileNames[i], DuplicateSmell, 1)) = 1
                   /\ Len(FindingsAt(FileNames[i], DuplicateSmell, 2)) = 1

\* a file with three identical blocks has been analysed: two findings; and
\* the file before it holds two identical blocks and a third close to them:
\* the finding of its line 1 tells of the first pair
C28_Witness ==
    /\ projPc = "returned"
    /\ Len(files) = 2
    /\ files[2].parses /\ files[2].duplicate = ThreeIdenticalBlocks
    /\ Len(SelectSeq(FindingsOf(FileNames[2]), LAMBDA r : r.smell = DuplicateSmell)) = 2
    /\ files[1].parses /\ Len(files[1].duplicate) = 3
    /\ files[1].duplicate[2].description = "90% similarity"
    /\ Len(FindingsAt(FileNames[1], DuplicateSmell, 1)) = 1
    /\ FindingsAt(FileNames[1], DuplicateSmell, 1)[1].description = "100% similarity"

\* under SpecDuplicate: the matches of three identical arrow functions are
\* reported at the smallest of the three lines twice and at the middle one
\* once
C28_ThreeIdenticalShareLines ==
    (dupPc = "returned" /\ ThreeIdenticalArrows) =>
        LET locs == {codeBlocks[k].loc : k \in 1..3}
            low  == CHOOSE a \in locs : \A b \in locs : a <= b
            high == CHOOSE a \in locs : \A b \in locs : a >= b
        IN  /\ Cardinality({k \in 1..Len(dupIssues) : dupIssues[k].line = low}) = 2
            /\ Cardinality({k \in 1..Len(dupIssues) :
                                dupIssues[k].line \in locs \ {low, high}}) = 1
            /\ Len(dupIssues) = 3

=============================================================================
